---- MODULE Spec2Model ----
\* MongoDB initialization for the sign-up database: init_mongo.js (the script
\* mongosh runs), its launchers init_db.js and the setup shell script, and the
\* part of the MongoDB server the script talks to.
EXTENDS Integers, Sequences, FiniteSets, TLC

\* ---------------------------------------------------------------- bounds

\* Number of runs of the initializer (sequential in Spec).
MaxRuns == 2
\* Number of calls of the public functions the API driver makes (SpecApi).
MaxCalls == 2

Procs == 1..MaxRuns

VARIABLES
  collections,  \* server: collection name -> [exists, validator, level, action]
  indexes,      \* server: collection name -> set of index definitions
  docs,         \* server: collection name -> sequence of documents
  pc,           \* per run: position in launcher / script
  loc,          \* per run: local variables of the script and the launcher
  calls,        \* per run: log of the store calls it issued, in order
  out,          \* per run: lines it printed, in order
  invs,         \* per run: log of the invocations of the script's functions / steps
  after         \* per run: the store as it was when the script completed

vars == <<collections, indexes, docs, pc, loc, calls, out, invs, after>>

\* ------------------------------------------------------ static configuration

Colls == {"users", "onboarding_steps"}

NoOptions == [k \in {} |-> "none"]

UsersIndexSpecs ==
  << [name |-> "uniq_email", key |-> << <<"email", 1>> >>, unique |-> TRUE, partial |-> {}],
     [name |-> "uniq_username", key |-> << <<"username", 1>> >>, unique |-> TRUE,
      partial |-> {"username"}],
     [name |-> "oauth_provider_id",
      key |-> << <<"oauthProvider", 1>>, <<"oauthProviderId", 1>> >>, unique |-> TRUE,
      partial |-> {"oauthProvider", "oauthProviderId"}],
     [name |-> "onboarding_currentStep", key |-> << <<"onboarding.currentStep", 1>> >>,
      unique |-> FALSE, partial |-> {}],
     [name |-> "createdAt_desc", key |-> << <<"createdAt", -1>> >>, unique |-> FALSE,
      partial |-> {}],
     [name |-> "updatedAt_desc", key |-> << <<"updatedAt", -1>> >>, unique |-> FALSE,
      partial |-> {}] >>

\* Variant: the index on key is not declared unique.
StepsIndexSpecsNotUnique ==
  << [name |-> "uniq_key", key |-> << <<"key", 1>> >>, unique |-> FALSE, partial |-> {}],
     [name |-> "order_asc", key |-> << <<"order", 1>> >>, unique |-> FALSE, partial |-> {}] >>

StepsIndexSpecs ==
  << [name |-> "uniq_key", key |-> << <<"key", 1>> >>, unique |-> TRUE, partial |-> {}],
     [name |-> "order_asc", key |-> << <<"order", 1>> >>, unique |-> FALSE, partial |-> {}] >>

SeedDocs ==
  << [key |-> "account", order |-> 0, title |-> "Create Account",
      description |-> "Set your email and password or use an OAuth provider.",
      isRequired |-> TRUE, createdAt |-> "now", updatedAt |-> "now"],
     [key |-> "profile", order |-> 1, title |-> "Complete Profile",
      description |-> "Tell us about yourself to personalize your experience.",
      isRequired |-> TRUE, createdAt |-> "now", updatedAt |-> "now"],
     [key |-> "preferences", order |-> 2, title |-> "Preferences",
      description |-> "Choose your interests and notification settings.",
      isRequired |-> FALSE, createdAt |-> "now", updatedAt |-> "now"],
     [key |-> "summary", order |-> 3, title |-> "Summary",
      description |-> "Review and confirm your details.",
      isRequired |-> TRUE, createdAt |-> "now", updatedAt |-> "now"] >>

\* The five steps of the script body, in program order.
Script ==
  << [fn |-> "ensureCollectionWithValidator", name |-> "users",
      validator |-> "usersSchema", options |-> NoOptions, specs |-> <<>>],
     [fn |-> "ensureCollectionWithValidator", name |-> "onboarding_steps",
      validator |-> "onboardingStepsSchema", options |-> NoOptions, specs |-> <<>>],
     [fn |-> "ensureIndexes", name |-> "users", validator |-> "none",
      options |-> NoOptions, specs |-> UsersIndexSpecs],
     [fn |-> "ensureIndexes", name |-> "onboarding_steps", validator |-> "none",
      options |-> NoOptions, specs |-> StepsIndexSpecs],
     [fn |-> "seed", name |-> "onboarding_steps", validator |-> "none",
      options |-> NoOptions, specs |-> <<>>] >>

\* ------------------------------------------------------------ printed lines

MsgCreatedCollection(name) ==
  [t |-> "Created collection '%1' with schema validation", a |-> <<name>>]
MsgUpdatedValidator(name) ==
  [t |-> "Updated validator for existing collection '%1'", a |-> <<name>>]
MsgCreatedIndex(idx, name) ==
  [t |-> "Created index '%1' on collection '%2'", a |-> <<idx, name>>]
MsgIndexExists(idx, name) ==
  [t |-> "Index '%1' already exists on '%2'", a |-> <<idx, name>>]
MsgSeeded ==
  [t |-> "Seeded onboarding_steps with default steps", a |-> <<>>]
MsgAlreadyContains(n) ==
  [t |-> "onboarding_steps already contains %1 documents", a |-> <<ToString(n)>>]
MsgComplete ==
  [t |-> "Initialization complete on database '%1'", a |-> <<"currentDB">>]

\* ------------------------------------------------------- the MongoDB server

AbsentColl == [exists |-> FALSE, validator |-> "none", level |-> "none", action |-> "none"]
\* A collection created implicitly (by createIndex or insert on a missing one).
ImplicitColl == [exists |-> TRUE, validator |-> "none", level |-> "strict", action |-> "error"]

IdIndex == [name |-> "_id_", key |-> << <<"_id", 1>> >>, unique |-> FALSE, partial |-> {}]

CollectionNames == {c \in Colls : collections[c].exists}

IndexNames(c) == {x.name : x \in indexes[c]}

\* Fields a validator requires of a document.
RequiredFields(validator) ==
  CASE validator = "usersSchema" -> {"email", "passwordHash", "onboarding"}
    [] validator = "onboardingStepsSchema" -> {"key", "order", "title"}
    [] OTHER -> {}

\* Whether the server rejects the insert of d into a collection with policy c.
RejectedByValidator(c, d) ==
  /\ c.level # "off"
  /\ c.action = "error"
  /\ ~(RequiredFields(c.validator) \subseteq DOMAIN d)

FieldVal(d, f) == IF f \in DOMAIN d THEN <<"v", d[f]>> ELSE <<"null">>
KeyVal(idx, d) == [n \in 1..Len(idx.key) |-> FieldVal(d, idx.key[n][1])]
InScope(idx, d) == idx.partial \subseteq DOMAIN d
Conflict(idx, d1, d2) ==
  /\ idx.unique
  /\ InScope(idx, d1)
  /\ InScope(idx, d2)
  /\ KeyVal(idx, d1) = KeyVal(idx, d2)

\* A unique index cannot be built over ds.
HasDuplicates(idx, ds) ==
  \E a, b \in 1..Len(ds) : a < b /\ Conflict(idx, ds[a], ds[b])

\* Inserting d into collection c violates one of its unique indexes.
DuplicateKey(c, d) ==
  \E idx \in indexes[c] : \E a \in 1..Len(docs[c]) : Conflict(idx, docs[c][a], d)

\* createIndex fails: a live index of that name with another definition, a live
\* index on the same key under another name, or a unique build over duplicates.
CreateIndexFails(c, idx) ==
  \/ \E x \in indexes[c] : x.name = idx.name /\ x # idx
  \/ \E x \in indexes[c] : x.key = idx.key /\ x.name # idx.name
  \/ idx \notin indexes[c] /\ HasDuplicates(idx, docs[c])


\* ------------------------------------------------- init_mongo.js: helpers

\* Object.assign(target, source): the source's keys win.
ObjectAssign(target, source) ==
  [k \in DOMAIN target \cup DOMAIN source |->
     IF k \in DOMAIN source THEN source[k] ELSE target[k]]

\* The options createCollection is called with.
CreateOpts(validator, options) ==
  ObjectAssign([validator |-> validator, validationLevel |-> "moderate",
                validationAction |-> "error"], options)

\* The command runCommand is called with on the update path.
CollModCmd(name, validator) ==
  [collMod |-> name, validator |-> validator, validationLevel |-> "moderate",
   validationAction |-> "error"]

\* Variant: the existence test is dropped and the create branch always taken.
NeedsCreateAlways(existing) == TRUE

\* if (!existing): the create branch of ensureCollectionWithValidator.
NeedsCreate(existing) == ~existing

\* Variant: every spec is taken to be missing.
IndexMissingAlways(existingNames, idx) == TRUE

\* if (!existing.includes(idx.name)): the create branch of ensureIndexes.
IndexMissing(existingNames, idx) == idx.name \notin existingNames

\* Variant: the emptiness guard is dropped.
ShouldSeedAlways(existingCount) == TRUE

\* Variant: seed whenever fewer documents than defaults are present.
ShouldSeedIfFewer(existingCount) == existingCount < Len(SeedDocs)

\* if (existingCount === 0): the insert branch of the seed step.
ShouldSeed(existingCount) == existingCount = 0

\* Where a function of the script starts.
EntryPc(fn) ==
  CASE fn = "ensureCollectionWithValidator" -> "ec_list"
    [] fn = "ensureIndexes" -> "ei_list"
    [] fn = "seed" -> "seed_count"

\* Positions at which mongosh is executing the script.
ScriptPcs == {"ec_list", "ec_apply", "ei_list", "ei_loop", "seed_count", "seed_insert",
              "finish"}

\* Variant: the exception is caught and the failed call tried again.
OnStoreErrorRetry(mode, at) == at

\* An exception thrown by a store call is caught nowhere: the script (IIFE) ends.
\* A caller of the public functions (api mode) gets the exception back.
OnStoreError(mode, at) == IF mode = "api" THEN "api_idle" ELSE "aborted"

Snapshot ==
  [done |-> TRUE, collections |-> collections, indexes |-> indexes, docs |-> docs]

Invocation(p, c) ==
  [fn |-> c.fn, name |-> c.name, validator |-> c.validator,
   options |-> c.options, specs |-> c.specs, result |-> "running"]

\* err: "ok", or the error the call threw.
Logged(p, op, coll, arg, err) ==
  [calls EXCEPT ![p] = Append(@, [inv |-> loc[p].inv, op |-> op, coll |-> coll,
                                  arg |-> arg, ok |-> (err = "ok"), err |-> err])]

Printed(p, msg) == [out EXCEPT ![p] = Append(@, [inv |-> loc[p].inv, msg |-> msg])]

\* Enter call c: a new frame and a new entry in the invocation log.
Enter(p, l, c, log) ==
  /\ invs' = [invs EXCEPT ![p] = Append(log, Invocation(p, c))]
  /\ loc' = [loc EXCEPT ![p] = [l EXCEPT !.call = c, !.inv = Len(log) + 1, !.i = 1,
                                         !.j = 1, !.existing = FALSE,
                                         !.existingIdx = {}, !.existingCount = 0]]
  /\ pc' = [pc EXCEPT ![p] = EntryPc(c.fn)]

\* The current function returns normally; the script goes on with its next step.
Return(p) ==
  LET l == loc[p]
      log == [invs[p] EXCEPT ![l.inv].result = "ok"]
  IN IF l.mode = "api"
       THEN /\ invs' = [invs EXCEPT ![p] = log]
            /\ loc' = loc
            /\ pc' = [pc EXCEPT ![p] = "api_idle"]
       ELSE IF l.phase < Len(Script)
              THEN Enter(p, [l EXCEPT !.phase = l.phase + 1], Script[l.phase + 1], log)
              ELSE /\ invs' = [invs EXCEPT ![p] = log]
                   /\ loc' = loc
                   /\ pc' = [pc EXCEPT ![p] = "finish"]

\* A store call throws.
Throw(p) ==
  /\ invs' = [invs EXCEPT ![p][loc[p].inv].result = "error"]
  /\ pc' = [pc EXCEPT ![p] = OnStoreError(loc[p].mode, pc[p])]
  /\ loc' = [loc EXCEPT ![p].script =
               IF OnStoreError(loc[p].mode, pc[p]) = "aborted" THEN "aborted" ELSE @]

\* ------------------------------- init_mongo.js: ensureCollectionWithValidator

\* const existing = db.getCollectionNames().includes(name);
EcList(p) ==
  /\ pc[p] = "ec_list"
  /\ loc' = [loc EXCEPT ![p].existing = (loc[p].call.name \in CollectionNames)]
  /\ pc' = [pc EXCEPT ![p] = "ec_apply"]
  /\ calls' = Logged(p, "getCollectionNames", "", [names |-> CollectionNames], "ok")
  /\ UNCHANGED <<collections, indexes, docs, out, invs, after>>

\* db.createCollection(name, createOpts); print(...)
EcCreate(p) ==
  LET c == loc[p].call
      opts == CreateOpts(c.validator, c.options)
  IN /\ pc[p] = "ec_apply"
     /\ NeedsCreate(loc[p].existing)
     /\ IF collections[c.name].exists
          THEN \* NamespaceExists
               /\ calls' = Logged(p, "createCollection", c.name, opts, "NamespaceExists")
               /\ Throw(p)
               /\ UNCHANGED <<collections, indexes, out>>
          ELSE /\ collections' = [collections EXCEPT ![c.name] =
                                    [exists |-> TRUE, validator |-> opts.validator,
                                     level |-> opts.validationLevel,
                                     action |-> opts.validationAction]]
               /\ indexes' = [indexes EXCEPT ![c.name] = {IdIndex}]
               /\ calls' = Logged(p, "createCollection", c.name, opts, "ok")
               /\ out' = Printed(p, MsgCreatedCollection(c.name))
               /\ Return(p)
     /\ UNCHANGED <<docs, after>>

\* db.runCommand({ collMod: name, ... }); print(...)
EcCollMod(p) ==
  LET c == loc[p].call
      cmd == CollModCmd(c.name, c.validator)
  IN /\ pc[p] = "ec_apply"
     /\ ~NeedsCreate(loc[p].existing)
     /\ IF ~collections[c.name].exists
          THEN \* NamespaceNotFound
               /\ calls' = Logged(p, "collMod", c.name, cmd, "NamespaceNotFound")
               /\ Throw(p)
               /\ UNCHANGED <<collections, out>>
          ELSE /\ collections' = [collections EXCEPT ![c.name] =
                                    [exists |-> TRUE, validator |-> cmd.validator,
                                     level |-> cmd.validationLevel,
                                     action |-> cmd.validationAction]]
               /\ calls' = Logged(p, "collMod", c.name, cmd, "ok")
               /\ out' = Printed(p, MsgUpdatedValidator(c.name))
               /\ Return(p)
     /\ UNCHANGED <<indexes, docs, after>>

\* ----------------------------------------------- init_mongo.js: ensureIndexes

\* Variant: the loop stops one spec early.
NextSpecOffByOne(p) ==
  IF loc[p].i < Len(loc[p].call.specs) - 1
    THEN /\ loc' = [loc EXCEPT ![p].i = @ + 1]
         /\ UNCHANGED <<pc, invs>>
    ELSE Return(p)

\* The loop goes on with the next spec, or the function returns after the last.
NextSpec(p) ==
  IF loc[p].i < Len(loc[p].call.specs)
    THEN /\ loc' = [loc EXCEPT ![p].i = @ + 1]
         /\ UNCHANGED <<pc, invs>>
    ELSE Return(p)

\* const existing = coll.getIndexes().map((i) => i.name);
EiList(p) ==
  /\ pc[p] = "ei_list"
  /\ collections[loc[p].call.name].exists
  /\ calls' = Logged(p, "getIndexes", loc[p].call.name,
                     [live |-> indexes[loc[p].call.name]], "ok")
  /\ IF Len(loc[p].call.specs) = 0
       THEN Return(p)
       ELSE /\ loc' = [loc EXCEPT ![p].existingIdx = IndexNames(loc[p].call.name)]
            /\ pc' = [pc EXCEPT ![p] = "ei_loop"]
            /\ UNCHANGED invs
  /\ UNCHANGED <<collections, indexes, docs, out, after>>

\* getIndexes on a collection that does not exist: the shell either reports no
\* indexes or throws "ns does not exist", depending on its version.
EiListMissing(p) ==
  /\ pc[p] = "ei_list"
  /\ ~collections[loc[p].call.name].exists
  /\ \E throws \in BOOLEAN :
       IF throws
         THEN /\ calls' = Logged(p, "getIndexes", loc[p].call.name, [live |-> {}],
                              "NamespaceNotFound")
              /\ Throw(p)
         ELSE /\ calls' = Logged(p, "getIndexes", loc[p].call.name, [live |-> {}], "ok")
              /\ loc' = [loc EXCEPT ![p].existingIdx = {}]
              /\ pc' = [pc EXCEPT ![p] = "ei_loop"]
              /\ UNCHANGED invs
  /\ UNCHANGED <<collections, indexes, docs, out, after>>

\* coll.createIndex(idx.key, idx); print(...)
EiCreate(p) ==
  LET c == loc[p].call
      idx == c.specs[loc[p].i]
  IN /\ pc[p] = "ei_loop"
     /\ IndexMissing(loc[p].existingIdx, idx)
     /\ IF CreateIndexFails(c.name, idx)
          THEN /\ calls' = Logged(p, "createIndex", c.name, idx, "IndexBuildFailed")
               /\ Throw(p)
               /\ UNCHANGED <<collections, indexes, out>>
          ELSE /\ collections' = [collections EXCEPT ![c.name] =
                                    IF @.exists THEN @ ELSE ImplicitColl]
               /\ indexes' = [indexes EXCEPT ![c.name] =
                                (IF collections[c.name].exists THEN @ ELSE {IdIndex})
                                  \cup {idx}]
               /\ calls' = Logged(p, "createIndex", c.name, idx, "ok")
               /\ out' = Printed(p, MsgCreatedIndex(idx.name, c.name))
               /\ NextSpec(p)
     /\ UNCHANGED <<docs, after>>

\* print(`Index ... already exists ...`)
EiSkip(p) ==
  LET c == loc[p].call
      idx == c.specs[loc[p].i]
  IN /\ pc[p] = "ei_loop"
     /\ ~IndexMissing(loc[p].existingIdx, idx)
     /\ out' = Printed(p, MsgIndexExists(idx.name, c.name))
     /\ NextSpec(p)
     /\ UNCHANGED <<collections, indexes, docs, calls, after>>

\* --------------------------------------------------- init_mongo.js: seeding

\* const existingCount = stepsColl.estimatedDocumentCount(); if (...) else print
SeedCount(p) ==
  LET n == Len(docs["onboarding_steps"])
  IN /\ pc[p] = "seed_count"
     /\ calls' = Logged(p, "estimatedDocumentCount", "onboarding_steps", [n |-> n], "ok")
     /\ IF ShouldSeed(n)
          THEN /\ loc' = [loc EXCEPT ![p].existingCount = n, ![p].j = 1]
               /\ pc' = [pc EXCEPT ![p] = "seed_insert"]
               /\ UNCHANGED <<out, invs>>
          ELSE /\ out' = Printed(p, MsgAlreadyContains(n))
               /\ Return(p)
     /\ UNCHANGED <<collections, indexes, docs, after>>

\* stepsColl.insertMany([...]): ordered, one document at a time on the server,
\* stopping at the first document the server rejects. print(...) after the last.
SeedInsert(p) ==
  LET c == "onboarding_steps"
      d == SeedDocs[loc[p].j]
  IN /\ pc[p] = "seed_insert"
     /\ IF RejectedByValidator(collections[c], d) \/ DuplicateKey(c, d)
          THEN /\ calls' = Logged(p, "insertMany", c, [docs |-> SeedDocs],
                                  IF DuplicateKey(c, d) THEN "DuplicateKey"
                                                        ELSE "DocumentValidationFailure")
               /\ Throw(p)
               /\ UNCHANGED <<collections, indexes, docs, out>>
          ELSE /\ docs' = [docs EXCEPT ![c] = Append(@, d)]
               /\ collections' = [collections EXCEPT ![c] =
                                    IF @.exists THEN @ ELSE ImplicitColl]
               /\ indexes' = [indexes EXCEPT ![c] =
                                IF collections[c].exists THEN @ ELSE {IdIndex}]
               /\ IF loc[p].j < Len(SeedDocs)
                    THEN /\ loc' = [loc EXCEPT ![p].j = @ + 1]
                         /\ UNCHANGED <<pc, invs, calls, out>>
                    ELSE /\ calls' = Logged(p, "insertMany", c, [docs |-> SeedDocs], "ok")
                         /\ out' = Printed(p, MsgSeeded)
                         /\ Return(p)
     /\ UNCHANGED after

\* print(`Initialization complete on database '${currentDB}'`); the script ends.
Finish(p) ==
  /\ pc[p] = "finish"
  /\ out' = Printed(p, MsgComplete)
  /\ pc' = [pc EXCEPT ![p] = "done"]
  /\ loc' = [loc EXCEPT ![p].script = "complete"]
  /\ after' = [after EXCEPT ![p] = Snapshot]
  /\ UNCHANGED <<collections, indexes, docs, calls, invs>>

\* ------------------------------------------- failures of the store / process

\* The store call the run is about to issue.
CallAt(p) ==
  LET c == loc[p].call
  IN CASE pc[p] = "ec_list" -> [op |-> "getCollectionNames", coll |-> "", arg |-> [names |-> {}]]
       [] pc[p] = "ec_apply" /\ NeedsCreate(loc[p].existing) ->
            [op |-> "createCollection", coll |-> c.name,
             arg |-> CreateOpts(c.validator, c.options)]
       [] pc[p] = "ec_apply" /\ ~NeedsCreate(loc[p].existing) ->
            [op |-> "collMod", coll |-> c.name, arg |-> CollModCmd(c.name, c.validator)]
       [] pc[p] = "ei_list" -> [op |-> "getIndexes", coll |-> c.name, arg |-> [live |-> {}]]
       [] pc[p] = "ei_loop" ->
            [op |-> "createIndex", coll |-> c.name, arg |-> c.specs[loc[p].i]]
       [] pc[p] = "seed_count" ->
            [op |-> "estimatedDocumentCount", coll |-> "onboarding_steps", arg |-> [n |-> 0]]
       [] pc[p] = "seed_insert" ->
            [op |-> "insertMany", coll |-> "onboarding_steps", arg |-> [docs |-> SeedDocs]]

\* The run is about to issue a store call.
AtStoreCall(p) ==
  /\ pc[p] \in {"ec_list", "ec_apply", "ei_list", "ei_loop", "seed_count", "seed_insert"}
  /\ pc[p] = "ei_loop" => IndexMissing(loc[p].existingIdx, loc[p].call.specs[loc[p].i])

\* A communication or permission failure: the call has no effect and throws.
StoreFail(p) ==
  /\ AtStoreCall(p)
  /\ calls' = Logged(p, CallAt(p).op, CallAt(p).coll, CallAt(p).arg, "StoreError")
  /\ Throw(p)
  /\ UNCHANGED <<collections, indexes, docs, out, after>>


\* ----------------------------------------------------------- the launchers

\* How a run is started: by init_db.js ("node") or by the setup script ("bash"),
\* with the environment it finds (file: db_visualizer/mongodb.env exists).
Launches ==
  { [kind |-> "node", file |-> TRUE, url |-> "set", db |-> "set"],
    [kind |-> "node", file |-> FALSE, url |-> "undefined", db |-> "set"],
    [kind |-> "node", file |-> TRUE, url |-> "set", db |-> ""],
    [kind |-> "bash", file |-> TRUE, url |-> "set", db |-> "set"],
    [kind |-> "bash", file |-> TRUE, url |-> "undefined", db |-> "set"],
    [kind |-> "bash", file |-> FALSE, url |-> "set", db |-> "set"] }

NoLaunch == [kind |-> "none", file |-> FALSE, url |-> "undefined", db |-> "undefined"]
NoStatus == [kind |-> "none", code |-> 0]

InitLoc ==
  [mode |-> "script", launch |-> NoLaunch, phase |-> 0, call |-> Script[1], inv |-> 0,
   existing |-> FALSE, existingIdx |-> {}, existingCount |-> 0, i |-> 1, j |-> 1,
   script |-> "notrun", status |-> NoStatus, spawnError |-> FALSE, exit |-> -1]

NoSnapshot == [done |-> FALSE, collections |-> <<>>, indexes |-> <<>>, docs |-> <<>>]

\* JavaScript: !v
Falsy(v) == v \in {"undefined", ""}

\* JavaScript: result.status || 0, where status is null for a signalled child.
StatusOrZero(st) == IF st.kind = "exited" /\ st.code # 0 THEN st.code ELSE 0

\* Shell: $? of a command: 128 + signal number for a signalled child.
ShellStatus(st) == IF st.kind = "signaled" THEN 128 + st.code ELSE st.code

Exit(p, code) ==
  /\ pc' = [pc EXCEPT ![p] = "exited"]
  /\ loc' = [loc EXCEPT ![p].exit = code]

\* A run is started once the runs before it have exited. What the earlier runs
\* printed and held in memory is gone.
Launch(p) ==
  /\ pc[p] = "idle"
  /\ \A q \in Procs : q < p => pc[q] = "exited"
  /\ \E l \in Launches :
       loc' = [q \in Procs |-> IF q = p THEN [InitLoc EXCEPT !.launch = l] ELSE InitLoc]
  /\ pc' = [pc EXCEPT ![p] = "l_env"]
  /\ calls' = [q \in Procs |-> <<>>]
  /\ out' = [q \in Procs |-> <<>>]
  /\ invs' = [q \in Procs |-> <<>>]
  /\ UNCHANGED <<collections, indexes, docs, after>>

\* init_db.js: if (!url || !dbName) { console.error(...); process.exit(1); }
NodeCheckEnv(p) ==
  /\ pc[p] = "l_env"
  /\ loc[p].launch.kind = "node"
  /\ IF Falsy(loc[p].launch.url) \/ Falsy(loc[p].launch.db)
       THEN Exit(p, 1)
       ELSE /\ pc' = [pc EXCEPT ![p] = "l_spawn"]
            /\ UNCHANGED loc
  /\ UNCHANGED <<collections, indexes, docs, calls, out, invs, after>>

\* setup script: source the env file or exit 1; set -u ends the script on an
\* unset MONGODB_URL / MONGODB_DB.
BashLoadEnv(p) ==
  /\ pc[p] = "l_env"
  /\ loc[p].launch.kind = "bash"
  /\ IF ~loc[p].launch.file \/ loc[p].launch.url = "undefined"
          \/ loc[p].launch.db = "undefined"
       THEN Exit(p, 1)
       ELSE /\ pc' = [pc EXCEPT ![p] = "l_spawn"]
            /\ UNCHANGED loc
  /\ UNCHANGED <<collections, indexes, docs, calls, out, invs, after>>

\* mongosh cannot be started: spawnSync reports result.error (status null); the
\* shell reports status 127.
SpawnFails(p) ==
  /\ pc[p] = "l_spawn"
  /\ loc' = [loc EXCEPT ![p].spawnError = (loc[p].launch.kind = "node"),
                        ![p].status = IF loc[p].launch.kind = "node"
                                        THEN NoStatus
                                        ELSE [kind |-> "exited", code |-> 127]]
  /\ pc' = [pc EXCEPT ![p] = "l_result"]
  /\ UNCHANGED <<collections, indexes, docs, calls, out, invs, after>>

\* mongosh starts but cannot connect: it exits 1 without running the script.
MongoshConnectFails(p) ==
  /\ pc[p] = "l_spawn"
  /\ loc' = [loc EXCEPT ![p].status = [kind |-> "exited", code |-> 1]]
  /\ pc' = [pc EXCEPT ![p] = "l_result"]
  /\ UNCHANGED <<collections, indexes, docs, calls, out, invs, after>>

\* mongosh connects and starts running init_mongo.js.
MongoshStart(p) ==
  /\ pc[p] = "l_spawn"
  /\ Enter(p, [loc[p] EXCEPT !.phase = 1, !.script = "running"], Script[1], invs[p])
  /\ UNCHANGED <<collections, indexes, docs, calls, out, after>>

\* mongosh ends: status 0 after the script completed, 1 after an uncaught exception.
MongoshExit(p) ==
  /\ pc[p] \in {"done", "aborted"}
  /\ loc[p].launch.kind # "none"
  /\ loc' = [loc EXCEPT ![p].status =
               [kind |-> "exited", code |-> IF pc[p] = "done" THEN 0 ELSE 1]]
  /\ pc' = [pc EXCEPT ![p] = "l_result"]
  /\ UNCHANGED <<collections, indexes, docs, calls, out, invs, after>>

\* mongosh is terminated by a signal (SIGKILL, 9) while it runs the script.
Kill(p) ==
  /\ pc[p] \in ScriptPcs
  /\ loc[p].launch.kind # "none"
  /\ loc' = [loc EXCEPT ![p].status = [kind |-> "signaled", code |-> 9],
                        ![p].script = "killed"]
  /\ pc' = [pc EXCEPT ![p] = "l_result"]
  /\ UNCHANGED <<collections, indexes, docs, calls, out, invs, after>>

\* init_db.js: if (result.error) process.exit(1); process.exit(result.status || 0);
NodeResult(p) ==
  /\ pc[p] = "l_result"
  /\ loc[p].launch.kind = "node"
  /\ Exit(p, IF loc[p].spawnError THEN 1 ELSE StatusOrZero(loc[p].status))
  /\ UNCHANGED <<collections, indexes, docs, calls, out, invs, after>>

\* setup script: set -e ends it with the status of a failing mongosh; otherwise
\* the optional demo seeding (|| true) and the final echo follow, and it exits 0.
BashResult(p) ==
  /\ pc[p] = "l_result"
  /\ loc[p].launch.kind = "bash"
  /\ Exit(p, IF ShellStatus(loc[p].status) # 0 THEN ShellStatus(loc[p].status) ELSE 0)
  /\ UNCHANGED <<collections, indexes, docs, calls, out, invs, after>>

\* ---------------------------------------------------------- initial stores

Coll(validator, level, action) ==
  [exists |-> TRUE, validator |-> validator, level |-> level, action |-> action]

\* States the 'users' collection can be in before the first run.
UsersStates ==
  { [c |-> AbsentColl, i |-> {}, d |-> <<>>],
    [c |-> ImplicitColl, i |-> {IdIndex}, d |-> <<>>],
    [c |-> Coll("legacyUsersSchema", "strict", "warn"), i |-> {IdIndex},
     d |-> << [email |-> "a@x.org"] >>],
    [c |-> ImplicitColl, i |-> {IdIndex},
     d |-> << [email |-> "a@x.org"], [email |-> "a@x.org"] >>],
    [c |-> ImplicitColl,
     i |-> {IdIndex, [name |-> "uniq_email", key |-> << <<"email", -1>> >>,
                      unique |-> FALSE, partial |-> {}]},
     d |-> << [email |-> "a@x.org"], [email |-> "a@x.org"] >>] }

\* States the 'onboarding_steps' collection can be in before the first run.
StepsStates ==
  { [c |-> AbsentColl, i |-> {}, d |-> <<>>],
    [c |-> ImplicitColl, i |-> {IdIndex}, d |-> <<>>],
    [c |-> ImplicitColl, i |-> {IdIndex},
     d |-> << [key |-> "welcome", order |-> 7, title |-> "Welcome"] >>],
    [c |-> ImplicitColl,
     i |-> {IdIndex, [name |-> "uniq_key", key |-> << <<"title", 1>> >>,
                      unique |-> FALSE, partial |-> {}]},
     d |-> <<>>],
    [c |-> ImplicitColl, i |-> {IdIndex},
     d |-> << [key |-> "intro", order |-> 0, title |-> "Intro"],
              [key |-> "intro", order |-> 1, title |-> "Intro again"] >>],
    [c |-> Coll("none", "off", "warn"), i |-> {IdIndex}, d |-> << [note |-> "x"] >>] }

StoreInit(us, ss) ==
  /\ collections = [c \in Colls |-> IF c = "users" THEN us.c ELSE ss.c]
  /\ indexes = [c \in Colls |-> IF c = "users" THEN us.i ELSE ss.i]
  /\ docs = [c \in Colls |-> IF c = "users" THEN us.d ELSE ss.d]

RunsInit ==
  /\ pc = [p \in Procs |-> "idle"]
  /\ loc = [p \in Procs |-> InitLoc]
  /\ calls = [p \in Procs |-> <<>>]
  /\ out = [p \in Procs |-> <<>>]
  /\ invs = [p \in Procs |-> <<>>]
  /\ after = [p \in Procs |-> NoSnapshot]

\* ------------------------------------ Spec: runs of the initializer in sequence

Init ==
  /\ \E us \in UsersStates, ss \in StepsStates : StoreInit(us, ss)
  /\ RunsInit

ScriptStep(p) ==
  \/ EcList(p)
  \/ EcCreate(p)
  \/ EcCollMod(p)
  \/ EiList(p)
  \/ EiCreate(p)
  \/ EiSkip(p)
  \/ SeedCount(p)
  \/ SeedInsert(p)
  \/ Finish(p)
  \/ StoreFail(p)

Next ==
  \E p \in Procs :
    \/ Launch(p)
    \/ NodeCheckEnv(p)
    \/ BashLoadEnv(p)
    \/ SpawnFails(p)
    \/ MongoshConnectFails(p)
    \/ MongoshStart(p)
    \/ ScriptStep(p)
    \/ MongoshExit(p)
    \/ Kill(p)
    \/ NodeResult(p)
    \/ BashResult(p)

Spec == Init /\ [][Next]_vars


\* ------------------- SpecApi: a caller of the script's two public functions
\* One of the two collections exists at the start, with an index whose name is
\* one of the script's and whose definition is not.

OptionChoices ==
  { NoOptions,
    [validationLevel |-> "strict", validationAction |-> "warn"],
    [validator |-> "customValidator"] }

ValidatorChoices == {"usersSchema", "onboardingStepsSchema"}

\* The specs of 'onboarding_steps' with other definitions under the same names.
AltStepsIndexSpecs ==
  << [name |-> "uniq_key", key |-> << <<"title", 1>> >>, unique |-> FALSE, partial |-> {}],
     [name |-> "order_asc", key |-> << <<"order", -1>> >>, unique |-> TRUE, partial |-> {}] >>

\* A caller's bug: one name twice in a call.
DupNameIndexSpecs == << StepsIndexSpecs[1], AltStepsIndexSpecs[1] >>

SpecsChoices == {StepsIndexSpecs, AltStepsIndexSpecs, DupNameIndexSpecs}

ApiInit ==
  /\ \E us \in {u \in UsersStates : ~u.c.exists \/ Cardinality(u.i) = 2},
        ss \in {x \in StepsStates : ~x.c.exists \/ Cardinality(x.i) = 2} :
       us.c.exists # ss.c.exists /\ StoreInit(us, ss)
  /\ pc = [p \in Procs |-> IF p = 1 THEN "api_idle" ELSE "idle"]
  /\ loc = [p \in Procs |-> IF p = 1 THEN [InitLoc EXCEPT !.mode = "api"] ELSE InitLoc]
  /\ calls = [p \in Procs |-> <<>>]
  /\ out = [p \in Procs |-> <<>>]
  /\ invs = [p \in Procs |-> <<>>]
  /\ after = [p \in Procs |-> NoSnapshot]

\* ensureCollectionWithValidator(db, name, validator, options)
CallEnsureCollection(p) ==
  /\ pc[p] = "api_idle"
  /\ Len(invs[p]) < MaxCalls
  /\ \E name \in Colls, validator \in ValidatorChoices, options \in OptionChoices :
       Enter(p, loc[p], [fn |-> "ensureCollectionWithValidator", name |-> name,
                         validator |-> validator, options |-> options, specs |-> <<>>],
             invs[p])
  /\ UNCHANGED <<collections, indexes, docs, calls, out, after>>

\* ensureIndexes(db, name, indexSpecs)
CallEnsureIndexes(p) ==
  /\ pc[p] = "api_idle"
  /\ Len(invs[p]) < MaxCalls
  /\ \E name \in Colls, specs \in SpecsChoices :
       Enter(p, loc[p], [fn |-> "ensureIndexes", name |-> name, validator |-> "none",
                         options |-> NoOptions, specs |-> specs], invs[p])
  /\ UNCHANGED <<collections, indexes, docs, calls, out, after>>

NextApi ==
  \E p \in Procs :
    \/ CallEnsureCollection(p)
    \/ CallEnsureIndexes(p)
    \/ EcList(p)
    \/ EcCreate(p)
    \/ EcCollMod(p)
    \/ EiList(p)
    \/ EiListMissing(p)
    \/ EiCreate(p)
    \/ EiSkip(p)
    \/ StoreFail(p)

SpecApi == ApiInit /\ [][NextApi]_vars

\* ------------- SpecConc: two mongosh runs of the script at once, empty database

ConcInit ==
  /\ StoreInit([c |-> AbsentColl, i |-> {}, d |-> <<>>],
               [c |-> AbsentColl, i |-> {}, d |-> <<>>])
  /\ pc = [p \in Procs |-> IF p \in {1, 2} THEN EntryPc(Script[1].fn) ELSE "idle"]
  /\ loc = [p \in Procs |->
              IF p \in {1, 2}
                THEN [InitLoc EXCEPT !.phase = 1, !.script = "running", !.inv = 1]
                ELSE InitLoc]
  /\ calls = [p \in Procs |-> <<>>]
  /\ out = [p \in Procs |-> <<>>]
  /\ invs = [p \in Procs |-> IF p \in {1, 2} THEN <<Invocation(p, Script[1])>> ELSE <<>>]
  /\ after = [p \in Procs |-> NoSnapshot]

NextConc == \E p \in Procs : ScriptStep(p)

SpecConc == ConcInit /\ [][NextConc]_vars

\* ================================================================ properties

CallsWith(p, ops) == {k \in 1..Len(calls[p]) : calls[p][k].op \in ops}
CallsOn(p, ops, coll) == {k \in CallsWith(p, ops) : calls[p][k].coll = coll}
OutMsgs(p) == [k \in 1..Len(out[p]) |-> out[p][k].msg]
StoreNow == [done |-> TRUE, collections |-> collections, indexes |-> indexes, docs |-> docs]
Steps == "onboarding_steps"

\* ------------------------------------------------------------------- C1
\* C1: whenever two runs of the full sequence have both completed without a
\* store error, the store (collections with validator and policy, indexes,
\* documents) after the later run is identical to the store after the earlier
\* one; in particular no index and no seed document is duplicated.
C1_Idempotent ==
  \A p, q \in Procs :
    (p < q /\ after[p].done /\ after[q].done) =>
      /\ after[q] = after[p]
      /\ \A a, b \in 1..Len(after[q].docs[Steps]) :
           (a # b /\ after[p].docs[Steps] = SeedDocs) =>
             after[q].docs[Steps][a] # after[q].docs[Steps][b]

\* A second run has completed on a store the first run created and seeded.
C1_Witness ==
  /\ after[1].done
  /\ after[2].done
  /\ after[1].docs[Steps] = SeedDocs
  /\ Len(calls[2]) > 0

\* ------------------------------------------------------------------- C4
\* C4: a seed step that read a count n >= 1 issues no insert, leaves the
\* documents alone and prints the count it read; a seed step that read 0 issues
\* exactly one insertMany, of the four default records account (0), profile (1),
\* preferences (2), summary (3) in that order, and on success the collection
\* holds exactly those four in that order.
C4_SeedGuard ==
  \A p \in Procs : \A k \in CallsWith(p, {"estimatedDocumentCount"}) :
    calls[p][k].ok =>
      LET n == calls[p][k].arg.n
          ins == CallsWith(p, {"insertMany"})
      IN IF n >= 1
           THEN /\ ins = {}
                /\ pc[p] # "seed_insert"
                /\ Len(docs[Steps]) = n
                /\ \E m \in 1..Len(out[p]) : out[p][m].msg = MsgAlreadyContains(n)
                /\ \A m \in 1..Len(out[p]) : out[p][m].msg # MsgSeeded
           ELSE /\ Cardinality(ins) <= 1
                /\ \A m \in ins :
                     /\ calls[p][m].arg.docs = SeedDocs
                     /\ [j \in 1..Len(SeedDocs) |-> <<SeedDocs[j].key, SeedDocs[j].order>>]
                          = << <<"account", 0>>, <<"profile", 1>>, <<"preferences", 2>>,
                               <<"summary", 3>> >>
                /\ docs[Steps] = SubSeq(SeedDocs, 1, Len(docs[Steps]))
                /\ invs[p][calls[p][k].inv].result = "ok" =>
                     /\ Cardinality(ins) = 1
                     /\ \A m \in ins : calls[p][m].ok
                     /\ docs[Steps] = SeedDocs

\* The seed step has skipped a collection holding one unrelated document.
C4_Witness ==
  \E p \in Procs :
    /\ docs[Steps] = << [key |-> "welcome", order |-> 7, title |-> "Welcome"] >>
    /\ \E m \in 1..Len(out[p]) : out[p][m].msg = MsgAlreadyContains(1)
    /\ loc[p].script = "complete"

\* ------------------------------------------------------------------- C5
\* The run found no collection when it started.
FreshRun(p) ==
  /\ Len(calls[p]) >= 1
  /\ calls[p][1].op = "getCollectionNames"
  /\ calls[p][1].ok
  /\ calls[p][1].arg.names = {}

EightNames ==
  {"uniq_email", "uniq_username", "oauth_provider_id", "onboarding_currentStep",
   "createdAt_desc", "updatedAt_desc", "uniq_key", "order_asc"}

FreshResult(p, total, onUsers, onSteps) ==
  /\ Cardinality(CallsWith(p, {"createCollection"})) = 2
  /\ \A k \in CallsWith(p, {"createCollection"}) :
       calls[p][k].arg.validator \in {"usersSchema", "onboardingStepsSchema"}
  /\ CallsWith(p, {"collMod"}) = {}
  /\ Cardinality(CallsWith(p, {"createIndex"})) = total
  /\ Cardinality(CallsOn(p, {"createIndex"}, "users")) = onUsers
  /\ Cardinality(CallsOn(p, {"createIndex"}, Steps)) = onSteps
  /\ {calls[p][k].arg.name : k \in CallsWith(p, {"createIndex"})} = EightNames
  /\ IndexNames("users") \cup IndexNames(Steps) = EightNames \cup {"_id_"}
  /\ Cardinality(CallsWith(p, {"insertMany"})) = 1
  /\ docs[Steps] = SeedDocs

\* C5 as stated: a completed run on a database without collections created 2
\* collections, 7 indexes (5 on 'users', 2 on 'onboarding_steps') under the
\* eight listed names, and inserted the 4 seed records.
C5_AsStated ==
  \A p \in Procs : (FreshRun(p) /\ loc[p].script = "complete") => FreshResult(p, 7, 5, 2)

\* C5 (amended): a completed run on a database without collections created 2
\* collections with validators, 8 indexes (6 on 'users', 2 on
\* 'onboarding_steps') under the eight listed names, and inserted the 4 seed
\* records.
C5_FreshDatabase ==
  \A p \in Procs : (FreshRun(p) /\ loc[p].script = "complete") => FreshResult(p, 8, 6, 2)

\* A run on a database without collections has completed.
C5_Witness == \E p \in Procs : FreshRun(p) /\ loc[p].script = "complete"

\* ------------------------------------------------------------------- C6
\* The run works on a database an earlier run initialized.
Rerun(p) == pc[p] # "idle" /\ \E q \in Procs : q < p /\ after[q].done

\* The line contains the words "already exists": only the index line does.
SaysAlreadyExists(m) == m.t = "Index '%1' already exists on '%2'"

\* What a completed re-run prints.
RerunOutput(n) ==
  << MsgUpdatedValidator("users"), MsgUpdatedValidator(Steps) >>
    \o [i \in 1..Len(UsersIndexSpecs) |-> MsgIndexExists(UsersIndexSpecs[i].name, "users")]
    \o [i \in 1..Len(StepsIndexSpecs) |-> MsgIndexExists(StepsIndexSpecs[i].name, Steps)]
    \o << MsgAlreadyContains(n), MsgComplete >>

\* C6 as stated: a completed re-run issues no createCollection, createIndex or
\* insertMany, leaves the store as it was, and the line it prints for every
\* step (both collection steps, every index, the seed step) says "already
\* exists".
C6_AsStated ==
  \A p \in Procs :
    (Rerun(p) /\ loc[p].script = "complete") =>
      /\ CallsWith(p, {"createCollection", "createIndex", "insertMany"}) = {}
      /\ \A q \in Procs : (q < p /\ after[q].done) => StoreNow = after[q]
      /\ \A k \in 1..(Len(out[p]) - 1) : SaysAlreadyExists(out[p][k].msg)

\* C6 (amended): a run on an initialized database issues no createCollection, no
\* createIndex and no insertMany; its collMod calls re-apply the validator and
\* policy the collection already has; the store stays as the earlier run left
\* it; and a completed re-run prints "Updated validator for existing
\* collection" for both collections, "already exists" for each of the eight
\* indexes and "already contains <count> documents" for the seed step.
C6_Rerun ==
  \A p \in Procs :
    Rerun(p) =>
      /\ CallsWith(p, {"createCollection", "createIndex", "insertMany"}) = {}
      /\ \A q \in Procs : (q < p /\ after[q].done) => StoreNow = after[q]
      /\ \A k \in CallsWith(p, {"collMod"}) :
           calls[p][k].ok =>
             collections[calls[p][k].coll] =
               Coll(calls[p][k].arg.validator, calls[p][k].arg.validationLevel,
                    calls[p][k].arg.validationAction)
      /\ \A k \in 1..Len(out[p]) :
           out[p][k].msg.t \notin {MsgCreatedCollection("").t, MsgCreatedIndex("", "").t,
                                   MsgSeeded.t}
      /\ loc[p].script = "complete" =>
           /\ OutMsgs(p) = RerunOutput(Len(docs[Steps]))
           /\ Cardinality(CallsWith(p, {"collMod"})) = 2

\* A re-run on an initialized database has completed.
C6_Witness == \E p \in Procs : Rerun(p) /\ loc[p].script = "complete"

\* ------------------------------------------------------------------- C7
\* C7: a failed store call is the last store call of its run (nothing follows
\* it, it is not tried again) and ends the script without the completion line;
\* what the run's successful calls created (collections, indexes, also those of
\* the ensureIndexes call that failed, documents) is still in the store; a run
\* that completed made all five steps without a failed call.
C7_AbortOnFirstError ==
  \A p \in Procs :
    /\ \A k \in 1..Len(calls[p]) :
         ~calls[p][k].ok =>
           /\ k = Len(calls[p])
           /\ loc[p].script = "aborted"
           /\ pc[p] \in {"aborted", "l_result", "exited"}
           /\ invs[p][calls[p][k].inv].result = "error"
           /\ \A m \in 1..Len(out[p]) : out[p][m].msg # MsgComplete
    /\ \A k \in CallsWith(p, {"createCollection"}) :
         calls[p][k].ok => collections[calls[p][k].coll].exists
    /\ \A k \in CallsWith(p, {"createIndex"}) :
         calls[p][k].ok => calls[p][k].arg \in indexes[calls[p][k].coll]
    /\ \A k \in CallsWith(p, {"insertMany"}) :
         calls[p][k].ok => \A j \in 1..Len(SeedDocs) :
                              \E a \in 1..Len(docs[Steps]) : docs[Steps][a] = SeedDocs[j]
    /\ loc[p].script = "complete" =>
         /\ Len(invs[p]) = Len(Script)
         /\ \A k \in 1..Len(invs[p]) : invs[p][k].result = "ok"
         /\ \A k \in 1..Len(calls[p]) : calls[p][k].ok

\* A createIndex call failed after an earlier createIndex of the same
\* ensureIndexes call succeeded; the earlier index is still there.
C7_Witness ==
  \E p \in Procs :
    /\ loc[p].script = "aborted"
    /\ Len(calls[p]) >= 2
    /\ calls[p][Len(calls[p])].op = "createIndex"
    /\ ~calls[p][Len(calls[p])].ok
    /\ calls[p][Len(calls[p]) - 1].op = "createIndex"
    /\ calls[p][Len(calls[p]) - 1].ok
    /\ calls[p][Len(calls[p]) - 1].inv = calls[p][Len(calls[p])].inv
    /\ calls[p][Len(calls[p]) - 1].arg \in indexes[calls[p][Len(calls[p])].coll]

\* ------------------------------------------------------------------- C8
\* C8: init_db.js exits with status 0 only when the mongosh run exited with
\* status 0; when the script was ended by a store error, mongosh could not be
\* started or was terminated by a signal, or the URL or database name is
\* missing, it exits with a non-zero status.
C8_NodeExitStatus ==
  \A p \in Procs :
    (pc[p] = "exited" /\ loc[p].launch.kind = "node" /\ loc[p].exit = 0) =>
      (loc[p].status.kind = "exited" /\ loc[p].status.code = 0)

\* ------------------------------------------------------------------- C2
\* The store calls invocation k of run p issued.
CallsOfInv(p, k) == {m \in 1..Len(calls[p]) : calls[p][m].inv = k}

\* C2: a call of ensureCollectionWithValidator issues at most one
\* createCollection or collMod call, and exactly one when it returns; the call
\* is createCollection when the name was absent from the collection names the
\* call read first and collMod when it was present, on the collection named.
C2_CreateOrUpdate ==
  \A p \in Procs : \A k \in 1..Len(invs[p]) :
    invs[p][k].fn = "ensureCollectionWithValidator" =>
      LET L == CallsOfInv(p, k)
          reads == {m \in L : calls[p][m].op = "getCollectionNames" /\ calls[p][m].ok}
          muts == {m \in L : calls[p][m].op \in {"createCollection", "collMod"}}
      IN /\ Cardinality(muts) <= 1
         /\ \A m \in L :
              calls[p][m].op \in {"getCollectionNames", "createCollection", "collMod"}
         /\ \A m \in muts :
              /\ calls[p][m].coll = invs[p][k].name
              /\ \E r \in reads :
                   /\ r < m
                   /\ (calls[p][m].op = "createCollection")
                        <=> (invs[p][k].name \notin calls[p][r].arg.names)
         /\ invs[p][k].result = "ok" =>
              /\ Cardinality(muts) = 1
              /\ \A m \in muts : calls[p][m].ok

\* One call created a collection and a later call on it updated its validator.
C2_Witness ==
  \E p \in Procs : \E m1, m2 \in 1..Len(calls[p]) :
    /\ m1 < m2
    /\ calls[p][m1].op = "createCollection"
    /\ calls[p][m1].ok
    /\ calls[p][m2].op = "collMod"
    /\ calls[p][m2].ok
    /\ calls[p][m2].coll = calls[p][m1].coll
    /\ invs[p][calls[p][m2].inv].result = "ok"

\* ------------------------------------------------------------------- C3
\* C3: a call of ensureIndexes issues createIndex only for specs whose name is
\* not among the index names it read; an index that was live under a spec's
\* name keeps its definition, whatever the spec says; and a call with the name
\* and specs of an earlier call that returned issues no createIndex at all.
C3_SkipByName ==
  \A p \in Procs : \A k \in 1..Len(invs[p]) :
    invs[p][k].fn = "ensureIndexes" =>
      LET v == invs[p][k]
          L == CallsOfInv(p, k)
          reads == {m \in L : calls[p][m].op = "getIndexes" /\ calls[p][m].ok}
          creates == {m \in L : calls[p][m].op = "createIndex"}
      IN /\ creates # {} => reads # {}
         /\ \A r \in reads :
              /\ \A m \in creates :
                   /\ calls[p][m].arg.name \notin {x.name : x \in calls[p][r].arg.live}
                   /\ calls[p][m].coll = v.name
                   /\ \E i \in 1..Len(v.specs) : v.specs[i] = calls[p][m].arg
              /\ \A x \in calls[p][r].arg.live : x \in indexes[v.name]
         /\ \A j \in 1..(k - 1) :
              ( /\ invs[p][j].fn = "ensureIndexes"
                /\ invs[p][j].name = v.name
                /\ invs[p][j].specs = v.specs
                /\ invs[p][j].result = "ok" ) => creates = {}

\* A call returned that skipped a spec whose definition differs from the live
\* index of that name.
C3_Witness ==
  \E p \in Procs : \E k \in 1..Len(invs[p]) :
    /\ invs[p][k].fn = "ensureIndexes"
    /\ invs[p][k].result = "ok"
    /\ \E r \in CallsOfInv(p, k) : \E i \in 1..Len(invs[p][k].specs) :
         /\ calls[p][r].op = "getIndexes"
         /\ calls[p][r].ok
         /\ invs[p][k].specs[i].name \in {x.name : x \in calls[p][r].arg.live}
         /\ invs[p][k].specs[i] \notin calls[p][r].arg.live
         /\ invs[p][k].specs[i] \notin indexes[invs[p][k].name]

\* ------------------------------------------------------------------- C9
\* C9: every collMod call carries the validator, validationLevel and
\* validationAction that createCollection would carry for the arguments of the
\* same call of ensureCollectionWithValidator, and the level is "moderate".
C9_SamePolicy ==
  \A p \in Procs : \A m \in CallsWith(p, {"collMod"}) :
    LET v == invs[p][calls[p][m].inv]
        o == CreateOpts(v.validator, v.options)
        a == calls[p][m].arg
    IN /\ a.validator = o.validator
       /\ a.validationLevel = o.validationLevel
       /\ a.validationAction = o.validationAction
       /\ a.validationLevel = "moderate"

\* ------------------------------------------------------------------ C10
\* The run read a zero document count.
ReadZero(p) ==
  \E k \in CallsWith(p, {"estimatedDocumentCount"}) :
    calls[p][k].ok /\ calls[p][k].arg.n = 0

InsertResult(p, errs) ==
  \E k \in CallsWith(p, {"insertMany"}) : calls[p][k].err \in errs

\* C10: with two runs interleaved on an initially empty database,
\* 'onboarding_steps' never holds two documents with one key nor more than four
\* documents; a run inserts only after its own ensureIndexes on
\* 'onboarding_steps' returned, with the unique index uniq_key in place; at most
\* one run's insertMany succeeds, and another run that also read a zero count
\* gets a store error from its insertMany.
C10_NoDuplicateSeeds ==
  /\ \A a, b \in 1..Len(docs[Steps]) : a # b => docs[Steps][a].key # docs[Steps][b].key
  /\ Len(docs[Steps]) <= Len(SeedDocs)
  /\ \A p \in Procs :
       (pc[p] = "seed_insert" \/ CallsWith(p, {"insertMany"}) # {}) =>
         /\ [name |-> "uniq_key", key |-> << <<"key", 1>> >>, unique |-> TRUE,
             partial |-> {}] \in indexes[Steps]
         /\ \E k \in 1..Len(invs[p]) :
              /\ invs[p][k].fn = "ensureIndexes"
              /\ invs[p][k].name = Steps
              /\ invs[p][k].result = "ok"
  /\ \A p, q \in Procs :
       (p # q /\ InsertResult(p, {"ok"})) =>
         /\ ~InsertResult(q, {"ok"})
         /\ (ReadZero(q) /\ loc[q].script \in {"aborted", "complete"})
              => InsertResult(q, {"DuplicateKey", "StoreError"})

\* Both runs read a zero count; one seeded, the other's insertMany failed on
\* the unique index.
C10_Witness ==
  \E p, q \in Procs :
    /\ p # q
    /\ ReadZero(p)
    /\ ReadZero(q)
    /\ InsertResult(p, {"ok"})
    /\ InsertResult(q, {"DuplicateKey"})
    /\ docs[Steps] = SeedDocs

====
